---- MODULE Spec2Model ----
(***************************************************************************)
(* Retail billing and inventory ledger of src/app.py: the Inventory and    *)
(* Sales tables kept in st.session_state, the two CSV files they are       *)
(* saved to, and the handlers that add a product, record a sale and delete *)
(* a sale.  Spec is one session working from the empty tables;             *)
(* SessionSpec adds a second session that loads the files while the first  *)
(* one is saving them.                                                     *)
(*                                                                         *)
(* Prices are whole cents.  A table is the sequence of its rows in index   *)
(* order (every concat and drop in the source renumbers the index 0..n-1). *)
(***************************************************************************)
EXTENDS Integers, Sequences, FiniteSets, TLC

\* ---- bounds -------------------------------------------------------------
MaxInv == 2          \* rows the Inventory table may grow to
MaxSales == 2        \* rows the Sales table may grow to
MaxQty == 2          \* largest quantity typed into the product form
MaxOps == 3          \* mutations of the saving session in SessionSpec

\* ---- inputs of the forms --------------------------------------------------
ProductIds == {"", " ", "P1"}
\* name, price and category as typed together into the product form
ProductForms == {[name |-> "", price |-> 0, category |-> ""],
                 [name |-> " ", price |-> 0, category |-> ""],
                 [name |-> "Widget", price |-> 3, category |-> "Tools"]}
Quantities == 0..MaxQty
Customers == {"", "Alice"}
SaleQuantities == 1..(MaxQty + 1)
Dates == {"2026-01-01 10:00:00"}

VARIABLES inventory, sales, invFile, salesFile, last, preSale,
          wpc, ver, opLog, rpc, rInventory, rSales, rInvVer, rSalesVer

ledgerVars == <<inventory, sales, invFile, salesFile, last, preSale>>
sessionVars == <<wpc, ver, opLog, rpc, rInventory, rSales, rInvVer, rSalesVer>>
vars == <<inventory, sales, invFile, salesFile, last, preSale,
          wpc, ver, opLog, rpc, rInventory, rSales, rInvVer, rSalesVer>>

\* ---- helpers --------------------------------------------------------------
\* Python truthiness of a str: only the empty string is falsy.
Truthy(s) == s # ""

\* Positions of the rows selected by inventory["Product ID"] == pid.
Matching(inv, pid) == {i \in 1..Len(inv) : inv[i].pid = pid}

\* product.empty
ProductEmpty(inv, pid) == Matching(inv, pid) = {}

\* product[...].values[0]: the first selected row.
FirstMatch(inv, pid) == inv[CHOOSE i \in Matching(inv, pid) : \A j \in Matching(inv, pid) : i <= j]

\* DataFrame.drop(i).reset_index(drop=True), i a 0-based label.
DropRow(s, i) == [k \in 1..(Len(s) - 1) |-> IF k <= i THEN s[k] ELSE s[k + 1]]

\* ---- persistence ----------------------------------------------------------
NA == "NaN"

\* DataFrame.to_csv(index=False): an empty string and a missing value are
\* both written as an empty field.
to_csv_cell(v) == IF v = NA THEN "" ELSE v

\* pd.read_csv: an empty field is read back as a missing value.
read_csv_cell(v) == IF v = "" THEN NA ELSE v

\* The text columns of each table go through the cell conversions; the
\* numeric columns are written and parsed back as the same numbers.
InvToCsv(inv) ==
    [i \in 1..Len(inv) |-> [inv[i] EXCEPT !.pid = to_csv_cell(@), !.name = to_csv_cell(@),
                                          !.category = to_csv_cell(@)]]
InvReadCsv(rows) ==
    [i \in 1..Len(rows) |-> [rows[i] EXCEPT !.pid = read_csv_cell(@), !.name = read_csv_cell(@),
                                            !.category = read_csv_cell(@)]]
SalesToCsv(sal) ==
    [i \in 1..Len(sal) |-> [sal[i] EXCEPT !.date = to_csv_cell(@), !.customer = to_csv_cell(@),
                                          !.pid = to_csv_cell(@), !.name = to_csv_cell(@)]]
SalesReadCsv(rows) ==
    [i \in 1..Len(rows) |-> [rows[i] EXCEPT !.date = read_csv_cell(@), !.customer = read_csv_cell(@),
                                            !.pid = read_csv_cell(@), !.name = read_csv_cell(@)]]

NoFile == [exists |-> FALSE, rows |-> <<>>, ver |-> 0]

\* load_data, one file at a time.
LoadInventory(f) == IF f.exists THEN InvReadCsv(f.rows) ELSE <<>>
LoadSales(f) == IF f.exists THEN SalesReadCsv(f.rows) ELSE <<>>

\* save_data, one file at a time; ver is the number of the mutation saved.
SavedInventory(inv, v) == [exists |-> TRUE, rows |-> InvToCsv(inv), ver |-> v]
SavedSales(sal, v) == [exists |-> TRUE, rows |-> SalesToCsv(sal), ver |-> v]

\* ---- core functions -------------------------------------------------------
\* add_product: always appends a row.
add_product(inv, pid, name, price, qty, category) ==
    Append(inv, [pid |-> pid, name |-> name, price |-> price, qty |-> qty, category |-> category])

\* The stock test off by one: a sale of one unit more than the stock passes.
NotEnoughStock_OneOver(qty, stock_qty) == qty > stock_qty + 1

\* The stock test with >=: a sale of exactly the stock is refused.
NotEnoughStock_RejectsExact(qty, stock_qty) == qty >= stock_qty

\* The stock test of record_sale.
NotEnoughStock(qty, stock_qty) == qty > stock_qty

\* record_sale without the return after "Product ID not found!": the sale of
\* an unknown product is still appended and saved.
record_sale_NoReturn(inv, sal, customer, pid, qty, date) ==
    IF ProductEmpty(inv, pid)
    THEN [result |-> "ProductNotFound", inventory |-> inv,
          sales |-> Append(sal, [date |-> date, customer |-> customer, pid |-> pid,
                                 name |-> "", qty |-> qty, total |-> 0]),
          saved |-> TRUE]
    ELSE LET product == FirstMatch(inv, pid)
             stock_qty == product.qty
             total_price == product.price * qty
             new_sale == [date |-> date, customer |-> customer, pid |-> pid,
                          name |-> product.name, qty |-> qty, total |-> total_price]
         IN IF NotEnoughStock(qty, stock_qty)
            THEN [result |-> "NotEnoughStock", inventory |-> inv, sales |-> sal, saved |-> FALSE]
            ELSE [result |-> "ok",
                  inventory |-> [i \in 1..Len(inv) |->
                                   IF inv[i].pid = pid
                                   THEN [inv[i] EXCEPT !.qty = stock_qty - qty]
                                   ELSE inv[i]],
                  sales |-> Append(sal, new_sale),
                  saved |-> TRUE]

\* record_sale: result, tables afterwards, and whether save_data ran.
record_sale(inv, sal, customer, pid, qty, date) ==
    IF ProductEmpty(inv, pid)
    THEN [result |-> "ProductNotFound", inventory |-> inv, sales |-> sal, saved |-> FALSE]
    ELSE LET product == FirstMatch(inv, pid)
             stock_qty == product.qty
             total_price == product.price * qty
             new_sale == [date |-> date, customer |-> customer, pid |-> pid,
                          name |-> product.name, qty |-> qty, total |-> total_price]
         IN IF NotEnoughStock(qty, stock_qty)
            THEN [result |-> "NotEnoughStock", inventory |-> inv, sales |-> sal, saved |-> FALSE]
            ELSE [result |-> "ok",
                  inventory |-> [i \in 1..Len(inv) |->
                                   IF inv[i].pid = pid
                                   THEN [inv[i] EXCEPT !.qty = stock_qty - qty]
                                   ELSE inv[i]],
                  sales |-> Append(sal, new_sale),
                  saved |-> TRUE]

\* delete_sale that drops the row without restoring the stock.
delete_sale_NoRestore(inv, sal, index_to_delete) ==
    IF 0 <= index_to_delete /\ index_to_delete < Len(sal)
    THEN [result |-> "ok", inventory |-> inv, sales |-> DropRow(sal, index_to_delete), saved |-> TRUE]
    ELSE [result |-> "InvalidIndex", inventory |-> inv, sales |-> sal, saved |-> FALSE]

\* delete_sale, index_to_delete 0-based.
delete_sale(inv, sal, index_to_delete) ==
    IF 0 <= index_to_delete /\ index_to_delete < Len(sal)
    THEN LET deleted_row == sal[index_to_delete + 1]
         IN [result |-> "ok",
             inventory |-> [i \in 1..Len(inv) |->
                              IF inv[i].pid = deleted_row.pid
                              THEN [inv[i] EXCEPT !.qty = @ + deleted_row.qty]
                              ELSE inv[i]],
             sales |-> DropRow(sal, index_to_delete),
             saved |-> TRUE]
    ELSE [result |-> "InvalidIndex", inventory |-> inv, sales |-> sal, saved |-> FALSE]

\* ---- one session: the handlers, each run to completion --------------------
NoSale == [valid |-> FALSE, inventory |-> <<>>, sales |-> <<>>]

Init ==
    /\ inventory = LoadInventory(NoFile)
    /\ sales = LoadSales(NoFile)
    /\ invFile = NoFile
    /\ salesFile = NoFile
    /\ last = [op |-> "start", result |-> "ok"]
    /\ preSale = NoSale
    /\ wpc = "idle"
    /\ ver = 0
    /\ opLog = <<>>
    /\ rpc = "start"
    /\ rInventory = <<>>
    /\ rSales = <<>>
    /\ rInvVer = 0
    /\ rSalesVer = 0

\* The product form's submit handler.
SubmitAddProduct(pid, name, price, qty, category) ==
    /\ IF Truthy(pid) /\ Truthy(name)
       THEN /\ Len(inventory) < MaxInv
            /\ inventory' = add_product(inventory, pid, name, price, qty, category)
            /\ invFile' = SavedInventory(inventory', 0)
            /\ salesFile' = SavedSales(sales, 0)
            /\ last' = [op |-> "add_product", result |-> "ok", pid |-> pid, name |-> name,
                        price |-> price, qty |-> qty, category |-> category]
       ELSE /\ UNCHANGED <<inventory, invFile, salesFile>>
            /\ last' = [op |-> "add_product", result |-> "Validation", pid |-> pid, name |-> name]
    /\ preSale' = NoSale
    /\ UNCHANGED sales
    /\ UNCHANGED sessionVars

\* The sale form's submit handler.
SubmitSale(customer, pid, qty, date) ==
    /\ IF Truthy(customer) /\ Truthy(pid)
       THEN LET r == record_sale(inventory, sales, customer, pid, qty, date)
            IN /\ Len(r.sales) <= MaxSales
               /\ inventory' = r.inventory
               /\ sales' = r.sales
               /\ IF r.saved
                  THEN /\ invFile' = SavedInventory(inventory', 0)
                       /\ salesFile' = SavedSales(sales', 0)
                  ELSE UNCHANGED <<invFile, salesFile>>
               /\ last' = [op |-> "record_sale", result |-> r.result, pid |-> pid, qty |-> qty]
               /\ preSale' = IF r.result = "ok"
                             THEN [valid |-> TRUE, inventory |-> inventory, sales |-> sales]
                             ELSE NoSale
       ELSE /\ UNCHANGED <<inventory, sales, invFile, salesFile>>
            /\ last' = [op |-> "record_sale", result |-> "Validation"]
            /\ preSale' = NoSale
    /\ UNCHANGED sessionVars

\* The delete button, offered while the Sales table is not empty; the number
\* input keeps the index within 0..len-1.
ClickDeleteSale(index) ==
    /\ Len(sales) > 0
    /\ LET r == delete_sale(inventory, sales, index)
       IN /\ inventory' = r.inventory
          /\ sales' = r.sales
          /\ IF r.saved
             THEN /\ invFile' = SavedInventory(inventory', 0)
                  /\ salesFile' = SavedSales(sales', 0)
             ELSE UNCHANGED <<invFile, salesFile>>
          /\ last' = [op |-> "delete_sale", result |-> r.result, index |-> index]
    /\ preSale' = NoSale
    /\ UNCHANGED sessionVars

AddStep == \E pid \in ProductIds, f \in ProductForms, qty \in Quantities :
               SubmitAddProduct(pid, f.name, f.price, qty, f.category)
SaleStep == \E customer \in Customers, pid \in ProductIds, qty \in SaleQuantities, date \in Dates :
                SubmitSale(customer, pid, qty, date)
DeleteStep == \E index \in 0..(Len(sales) - 1) : ClickDeleteSale(index)

Next == AddStep \/ SaleStep \/ DeleteStep

Spec == Init /\ [][Next]_vars

\* ---- two sessions: one mutating and saving, one loading -------------------
\* Each session has its own st.session_state, so the tables in memory are
\* private to it and the files are all the sessions share.  save_data writes
\* the inventory file and then the sales file; load_data reads the inventory
\* file and then the sales file.  Each file write and each file read is taken
\* as one step.  ver numbers the mutations of the saving session and opLog[v]
\* is the function that made mutation v; a file carries the number of the
\* mutation it was last saved after.

WAdd(pid, name, price, qty, category) ==
    /\ wpc = "idle"
    /\ ver < MaxOps
    /\ Truthy(pid) /\ Truthy(name)
    /\ Len(inventory) < MaxInv
    /\ inventory' = add_product(inventory, pid, name, price, qty, category)
    /\ ver' = ver + 1
    /\ opLog' = Append(opLog, "add_product")
    /\ wpc' = "save_inventory"
    /\ UNCHANGED <<sales, invFile, salesFile, last, preSale, rpc, rInventory, rSales, rInvVer, rSalesVer>>

WSale(customer, pid, qty, date) ==
    /\ wpc = "idle"
    /\ ver < MaxOps
    /\ Truthy(customer) /\ Truthy(pid)
    /\ Len(sales) < MaxSales
    /\ LET r == record_sale(inventory, sales, customer, pid, qty, date)
       IN /\ r.saved
          /\ inventory' = r.inventory
          /\ sales' = r.sales
    /\ ver' = ver + 1
    /\ opLog' = Append(opLog, "record_sale")
    /\ wpc' = "save_inventory"
    /\ UNCHANGED <<invFile, salesFile, last, preSale, rpc, rInventory, rSales, rInvVer, rSalesVer>>

WDelete(index) ==
    /\ wpc = "idle"
    /\ ver < MaxOps
    /\ Len(sales) > 0
    /\ LET r == delete_sale(inventory, sales, index)
       IN /\ r.saved
          /\ inventory' = r.inventory
          /\ sales' = r.sales
    /\ ver' = ver + 1
    /\ opLog' = Append(opLog, "delete_sale")
    /\ wpc' = "save_inventory"
    /\ UNCHANGED <<invFile, salesFile, last, preSale, rpc, rInventory, rSales, rInvVer, rSalesVer>>

\* save_data, first statement.
WSaveInventory ==
    /\ wpc = "save_inventory"
    /\ invFile' = SavedInventory(inventory, ver)
    /\ wpc' = "save_sales"
    /\ UNCHANGED <<inventory, sales, salesFile, last, preSale, ver, opLog, rpc, rInventory, rSales, rInvVer, rSalesVer>>

\* save_data, second statement.
WSaveSales ==
    /\ wpc = "save_sales"
    /\ salesFile' = SavedSales(sales, ver)
    /\ wpc' = "idle"
    /\ UNCHANGED <<inventory, sales, invFile, last, preSale, ver, opLog, rpc, rInventory, rSales, rInvVer, rSalesVer>>

\* load_data of the other session, inventory file.
RLoadInventory ==
    /\ rpc = "start"
    /\ rInventory' = LoadInventory(invFile)
    /\ rInvVer' = invFile.ver
    /\ rpc' = "load_sales"
    /\ UNCHANGED <<ledgerVars, wpc, ver, opLog, rSales, rSalesVer>>

\* load_data of the other session, sales file.
RLoadSales ==
    /\ rpc = "load_sales"
    /\ rSales' = LoadSales(salesFile)
    /\ rSalesVer' = salesFile.ver
    /\ rpc' = "loaded"
    /\ UNCHANGED <<ledgerVars, wpc, ver, opLog, rInventory, rInvVer>>

WAddStep == \E pid \in ProductIds, f \in ProductForms, qty \in Quantities :
                WAdd(pid, f.name, f.price, qty, f.category)
WSaleStep == \E customer \in Customers, pid \in ProductIds, qty \in SaleQuantities, date \in Dates :
                 WSale(customer, pid, qty, date)
WDeleteStep == \E index \in 0..(Len(sales) - 1) : WDelete(index)

SessionNext ==
    \/ WAddStep
    \/ WSaleStep
    \/ WDeleteStep
    \/ WSaveInventory
    \/ WSaveSales
    \/ RLoadInventory
    \/ RLoadSales

SessionSpec == Init /\ [][SessionNext]_vars

\* ==== properties ============================================================
tables == <<inventory, sales, invFile, salesFile>>

\* str.strip() on the strings of the forms.
Trim(s) == IF s = " " THEN "" ELSE s

RECURSIVE SumSold(_, _)
\* Sum of Quantity Sold over the Sales rows of a product.
SumSold(sal, pid) ==
    IF sal = <<>> THEN 0
    ELSE (IF Head(sal).pid = pid THEN Head(sal).qty ELSE 0) + SumSold(Tail(sal), pid)

SaleDone == last.op = "record_sale" /\ last.result = "ok"
DeleteDone == last.op = "delete_sale" /\ last.result = "ok"

\* C1: no two rows of Inventory have the same productId.
C1_UniqueProductId ==
    \A i, j \in 1..Len(inventory) : inventory[i].pid = inventory[j].pid => i = j

\* C2: every Inventory row has quantity >= 0, in every reachable state.
C2_QuantityNonNegative ==
    \A i \in 1..Len(inventory) : inventory[i].qty >= 0

\* A sale of the whole stock has just been recorded.
C2_Witness ==
    /\ SaleDone
    /\ \E i \in 1..Len(inventory) : inventory[i].pid = last.pid /\ inventory[i].qty = 0

\* C3: add_product with a productId that is already in Inventory keeps the
\* number of rows, overwrites that row with the supplied values and changes
\* no other row and no Sales row.
C3_UpsertOverwrites ==
    [][(last'.op = "add_product" /\ last'.result = "ok" /\ ~ProductEmpty(inventory, last'.pid))
       => /\ Len(inventory') = Len(inventory)
          /\ \A i \in 1..Len(inventory) :
                 inventory'[i] = IF inventory[i].pid = last'.pid
                                 THEN [pid |-> last'.pid, name |-> last'.name, price |-> last'.price,
                                       qty |-> last'.qty, category |-> last'.category]
                                 ELSE inventory[i]
          /\ sales' = sales]_vars

C5_ExactStockBoundary ==
    [][(last'.op = "record_sale" /\ last'.result # "Validation" /\ ~ProductEmpty(inventory, last'.pid))
       => LET s == FirstMatch(inventory, last'.pid).qty
          IN /\ last'.qty = s =>
                    /\ last'.result = "ok"
                    /\ \A i \in Matching(inventory', last'.pid) : inventory'[i].qty = 0
             /\ last'.qty > s =>
                    /\ last'.result = "NotEnoughStock"
                    /\ UNCHANGED tables]_vars

\* A sale of exactly the stock on hand has just drained it.
C5_Witness ==
    /\ SaleDone
    /\ preSale.valid
    /\ FirstMatch(preSale.inventory, last.pid).qty = last.qty
    /\ FirstMatch(inventory, last.pid).qty = 0

\* C6: record_sale with a productId that matches no Inventory row fails with
\* "Product ID not found" and leaves both tables and both files unchanged.
C6_UnknownProductRejected ==
    [][(last'.op = "record_sale" /\ last'.result # "Validation" /\ ProductEmpty(inventory, last'.pid))
       => /\ last'.result = "ProductNotFound"
          /\ UNCHANGED tables]_vars

\* A sale of an unknown product was refused while Inventory holds products.
C6_Witness ==
    /\ last.op = "record_sale"
    /\ last.result = "ProductNotFound"
    /\ Len(inventory) > 0
    /\ invFile.exists

\* C7: a successful record_sale immediately followed by delete_sale of the
\* row just created returns every Inventory quantity and the Sales table to
\* what they were before the sale.
C7_SaleDeleteRoundTrip ==
    [][(preSale.valid /\ last'.op = "delete_sale" /\ last'.index = Len(sales) - 1)
       => /\ Len(inventory') = Len(preSale.inventory)
          /\ \A i \in 1..Len(inventory') : inventory'[i].qty = preSale.inventory[i].qty
          /\ sales' = preSale.sales]_vars

\* The mutations that lie between the two files a loading session has read.
Straddled ==
    LET lo == IF rInvVer < rSalesVer THEN rInvVer ELSE rSalesVer
        hi == IF rInvVer < rSalesVer THEN rSalesVer ELSE rInvVer
    IN {opLog[v] : v \in (lo + 1)..hi}

\* C8: a session that loads the files never sees the sales rows of a
\* record_sale without its stock decrement, nor the decrement without the
\* row: the inventory and the sales it loads are never separated by
\* record_sale mutations.
C8_SaleAtomicForReaders ==
    rpc = "loaded" => ~(Straddled # {} /\ Straddled \subseteq {"record_sale"})

\* C9: add_product fails with a validation warning, and changes neither
\* table, whenever productId or name is empty after trimming whitespace.
C9_BlankRejected ==
    [][(last'.op = "add_product" /\ (Trim(last'.pid) = "" \/ Trim(last'.name) = ""))
       => /\ last'.result = "Validation"
          /\ UNCHANGED tables]_vars

\* C10: for a productId held by exactly one Inventory row, record_sale and
\* delete_sale keep quantity + sum of Quantity Sold of that productId constant.
C10_StockConservation ==
    [][(last'.op \in {"record_sale", "delete_sale"})
       => \A pid \in ProductIds :
              Cardinality(Matching(inventory, pid)) = 1
              => /\ Cardinality(Matching(inventory', pid)) = 1
                 /\ FirstMatch(inventory', pid).qty + SumSold(sales', pid)
                      = FirstMatch(inventory, pid).qty + SumSold(sales, pid)]_vars

\* A sale of a product held by one row has just been deleted while another
\* sale of it is still on record.
C10_Witness ==
    /\ DeleteDone
    /\ \E pid \in ProductIds :
           /\ Cardinality(Matching(inventory, pid)) = 1
           /\ SumSold(sales, pid) > 0
           /\ FirstMatch(inventory, pid).qty > 0

====
